---- MODULE Spec2Model ----
(***************************************************************************)
(* A model of mus_sort: the legacy script src/mus_sort.py (sort_root,      *)
(* sort_dir, MusicFolder, rename_folder, cleanup, fix_path, genre) and the *)
(* helpers of the package src/src/musort/tools/__init__.py (cache.genre,   *)
(* MusicFile.prepare_component, get_new_dir, get_new_name).                *)
(*                                                                         *)
(* A Python str is a sequence of one-character strings; a character that   *)
(* is not ASCII is written by its code point ("U+2026").  Python's None is *)
(* the value None below, which is no such sequence.                        *)
(***************************************************************************)
EXTENDS Integers, Sequences, FiniteSets, TLC

VARIABLES
  fs,        \* the file system
  mode,      \* the Mode dict: rename_dirs, rename_files, remove_duplicates, remove_empty
  errs,      \* the Errors list of main()
  genreObj,  \* the dict behind mus_sort.genre's __obj default
  stack,     \* the sort_root / sort_dir calls in progress, innermost last
  folder,    \* the MusicFolder of the innermost sort_dir
  status,    \* where main() is: start, sorting, sorted, done, aborted
  run,       \* first or second invocation of the script on the tree
  ev,        \* what the last step did
  pkgCache,  \* cache._genre of the package
  calls,     \* the calls of genre and cache.genre made so far, with what they returned
  san,       \* a string handed to the two sanitizers, and what they returned
  ledger1    \* once a second run has started: the ledger the first run ended with

vars == <<fs, mode, errs, genreObj, stack, folder, status, run, ev, pkgCache, calls, san, ledger1>>

None == <<"None">>

(***************************************************************************)
(* str helpers                                                             *)
(***************************************************************************)
IsSpace(c) == c = " "

UpperCase ==
  <<"A", "B", "C", "D", "E", "F", "G", "H", "I", "J", "K", "L", "M",
    "N", "O", "P", "Q", "R", "S", "T", "U", "V", "W", "X", "Y", "Z">>

LowerCase ==
  <<"a", "b", "c", "d", "e", "f", "g", "h", "i", "j", "k", "l", "m",
    "n", "o", "p", "q", "r", "s", "t", "u", "v", "w", "x", "y", "z">>

Letters ==
  {UpperCase[i] : i \in 1..Len(UpperCase)} \cup {LowerCase[i] : i \in 1..Len(LowerCase)}
    \cup {"_"}

Digits == {"0", "1", "2", "3", "4", "5", "6", "7", "8", "9"}

\* [^\d\W] of textwrap's wordsep_re
IsLetter(c) == c \in Letters

\* \w
IsWordChar(c) == c \in Letters \cup Digits

\* [\w!"'&.,?]
IsWordPunct(c) == IsWordChar(c) \/ c \in {"!", "\"", "'", "&", ".", ",", "?"}

RECURSIVE LStrip(_)
LStrip(s) == IF s # <<>> /\ IsSpace(s[1]) THEN LStrip(Tail(s)) ELSE s

RECURSIVE RStrip(_)
RStrip(s) ==
  IF s # <<>> /\ IsSpace(s[Len(s)]) THEN RStrip(SubSeq(s, 1, Len(s) - 1)) ELSE s

\* str.strip()
Strip(s) == RStrip(LStrip(s))

\* str.split(c)[0]: the text before the first c
RECURSIVE SplitFirst(_, _)
SplitFirst(s, c) ==
  IF s = <<>> \/ s[1] = c THEN <<>> ELSE <<s[1]>> \o SplitFirst(Tail(s), c)

\* str.replace(old, new): every non-overlapping occurrence, left to right
RECURSIVE Replace(_, _, _)
Replace(s, old, new) ==
  IF Len(s) < Len(old) THEN s
  ELSE IF SubSeq(s, 1, Len(old)) = old
       THEN new \o Replace(SubSeq(s, Len(old) + 1, Len(s)), old, new)
       ELSE <<s[1]>> \o Replace(Tail(s), old, new)

\* for r1, r2 in table: resp = resp.replace(r1, r2)
RECURSIVE ReplaceAll(_, _)
ReplaceAll(s, table) ==
  IF table = <<>> THEN s
  ELSE ReplaceAll(Replace(s, table[1][1], table[1][2]), Tail(table))

\* str.zfill(2)
ZFill2(s) ==
  IF Len(s) >= 2 THEN s
  ELSE IF Len(s) = 1 THEN <<"0">> \o s ELSE <<"0", "0">>

LowerChar(c) ==
  IF \E i \in 1..Len(UpperCase) : UpperCase[i] = c
  THEN LowerCase[CHOOSE i \in 1..Len(UpperCase) : UpperCase[i] = c]
  ELSE c

\* str.lower()
Lower(s) == [i \in 1..Len(s) |-> LowerChar(s[i])]

RECURSIVE SumLen(_)
SumLen(chunks) == IF chunks = <<>> THEN 0 ELSE Len(chunks[1]) + SumLen(Tail(chunks))

\* "".join(chunks)
RECURSIVE Join(_)
Join(chunks) == IF chunks = <<>> THEN <<>> ELSE chunks[1] \o Join(Tail(chunks))

\* chunk.strip() == ''
AllSpace(s) == \A i \in 1..Len(s) : IsSpace(s[i])

(***************************************************************************)
(* textwrap.fill(text, width=w, placeholder=ph, max_lines=1), as both      *)
(* sanitizers call it (break_long_words, break_on_hyphens and              *)
(* drop_whitespace keep their defaults).                                   *)
(***************************************************************************)
ValueError == <<"ValueError">>

\* the number of "-" from position i on
RECURSIVE HyRun(_, _)
HyRun(s, i) == IF i <= Len(s) /\ s[i] = "-" THEN 1 + HyRun(s, i + 1) ELSE 0

\* wordsep_re, second alternative: (?<=wp) -{2,} (?=\w); the run's length, or 0
EmDashAt(s, i) ==
  LET n == HyRun(s, i)
  IN IF i > 1 /\ IsWordPunct(s[i - 1]) /\ n >= 2 /\ i + n <= Len(s)
        /\ IsWordChar(s[i + n])
     THEN n ELSE 0

\* wordsep_re, third alternative: whether a word that started earlier ends at e
WordEndsAt(s, e) ==
  \/ /\ s[e] = "-"
     /\ \/ e - 2 >= 1 /\ IsLetter(s[e - 2]) /\ IsLetter(s[e - 1])
        \/ e - 3 >= 1 /\ IsLetter(s[e - 3]) /\ s[e - 2] = "-" /\ IsLetter(s[e - 1])
     /\ e + 1 <= Len(s) /\ IsLetter(s[e + 1])
     /\ \/ e + 2 <= Len(s) /\ IsLetter(s[e + 2])
        \/ e + 3 <= Len(s) /\ s[e + 2] = "-" /\ IsLetter(s[e + 3])
  \/ e = Len(s)
  \/ e < Len(s) /\ IsSpace(s[e + 1])
  \/ /\ IsWordPunct(s[e])
     /\ HyRun(s, e + 1) >= 2
     /\ e + 1 + HyRun(s, e + 1) <= Len(s)
     /\ IsWordChar(s[e + 1 + HyRun(s, e + 1)])

RECURSIVE WordEnd(_, _)
WordEnd(s, e) == IF WordEndsAt(s, e) THEN e ELSE WordEnd(s, e + 1)

RECURSIVE SpaceEnd(_, _)
SpaceEnd(s, e) == IF e < Len(s) /\ IsSpace(s[e + 1]) THEN SpaceEnd(s, e + 1) ELSE e

\* the last position of the chunk that starts at i
ChunkEnd(s, i) ==
  IF IsSpace(s[i]) THEN SpaceEnd(s, i)
  ELSE IF EmDashAt(s, i) > 0 THEN i + EmDashAt(s, i) - 1
  ELSE WordEnd(s, i)

\* TextWrapper._split: the chunks of s from position i on
RECURSIVE SplitChunks(_, _)

\* the chunk from i to e, and the chunks after it
SplitAt(s, i, e) == <<SubSeq(s, i, e)>> \o SplitChunks(s, e + 1)

SplitChunks(s, i) == IF i > Len(s) THEN <<>> ELSE SplitAt(s, i, ChunkEnd(s, i))

\* the chunks that fit one after the other in a line of the given width
RECURSIVE FitCount(_, _, _)
FitCount(chunks, width, n) ==
  IF chunks # <<>> /\ n + Len(chunks[1]) <= width
  THEN 1 + FitCount(Tail(chunks), width, n + Len(chunks[1]))
  ELSE 0

\* chunk.rfind('-', 0, space), 1-based; 0 when there is none
RECURSIVE RFindHyphen(_, _)
RFindHyphen(chunk, p) ==
  IF p < 1 THEN 0
  ELSE IF p <= Len(chunk) /\ chunk[p] = "-" THEN p
  ELSE RFindHyphen(chunk, p - 1)

\* _handle_long_word: how many characters of the chunk go on the current line
LongWordCut(chunk, space) ==
  LET h == RFindHyphen(chunk, space)
  IN IF h > 1 /\ \E q \in 1..(h - 1) : chunk[q] # "-" THEN h ELSE space

\* _wrap_chunks, the max_lines branch: drop chunks until the placeholder fits
RECURSIVE Truncate(_, _, _, _)
Truncate(cur, n, width, ph) ==
  IF cur = <<>> THEN LStrip(ph)
  ELSE IF ~AllSpace(cur[Len(cur)]) /\ n + Len(ph) <= width
       THEN Join(cur) \o ph
       ELSE Truncate(SubSeq(cur, 1, Len(cur) - 1), n - Len(cur[Len(cur)]), width, ph)

\* _wrap_chunks with max_lines = 1: the first (and only) line
RECURSIVE WrapChunks(_, _, _)

\* the line is complete: return it when nothing but one blank chunk is left
\* and it fits, else truncate it; an empty line starts over on the later chunks
WrapEnd(cur, rest, width, ph) ==
  IF cur = <<>> THEN WrapChunks(rest, width, ph)
  ELSE IF (rest = <<>> \/ (Len(rest) = 1 /\ AllSpace(rest[1]))) /\ SumLen(cur) <= width
       THEN Join(cur)
       ELSE Truncate(cur, SumLen(cur), width, ph)

\* drop_whitespace: a blank chunk at the end of the line is dropped
WrapStrip(cur, rest, width, ph) ==
  WrapEnd(IF cur # <<>> /\ AllSpace(cur[Len(cur)]) THEN SubSeq(cur, 1, Len(cur) - 1) ELSE cur,
          rest, width, ph)

\* _handle_long_word: the first cut characters of the next chunk go on the line
WrapCut(cur, rest, cut, width, ph) ==
  WrapStrip(Append(cur, SubSeq(rest[1], 1, cut)),
            <<SubSeq(rest[1], cut + 1, Len(rest[1]))>> \o Tail(rest), width, ph)

\* the chunks that fit are on the line; a next chunk wider than the width is cut
WrapLong(cur, rest, width, ph) ==
  IF rest # <<>> /\ Len(rest[1]) > width
  THEN WrapCut(cur, rest, LongWordCut(rest[1], width - SumLen(cur)), width, ph)
  ELSE WrapStrip(cur, rest, width, ph)

WrapLine(chunks, k, width, ph) ==
  WrapLong(SubSeq(chunks, 1, k), SubSeq(chunks, k + 1, Len(chunks)), width, ph)

WrapChunks(chunks, width, ph) ==
  IF chunks = <<>> THEN <<>>
  ELSE WrapLine(chunks, FitCount(chunks, width, 0), width, ph)

Fill(text, width, ph) ==
  IF width <= 0 \/ Len(LStrip(ph)) > width THEN ValueError
  ELSE WrapChunks(SplitChunks(text, 1), width, ph)

(***************************************************************************)
(* The two sanitizers                                                      *)
(***************************************************************************)
DEFAULT_REPLACEMENTS ==
  << <<(<<":", " ">>), (<<" ", "-", " ">>)>>,
     <<(<<":">>), (<<";">>)>>,
     <<(<<"\"">>), (<<"'">>)>>,
     <<(<<"\\">>), (<<>>)>>,
     <<(<<"/">>), (<<>>)>>,
     <<(<<"|">>), (<<>>)>>,
     <<(<<"*">>), (<<"-">>)>>,
     <<(<<"?">>), (<<"U+2753">>)>>,
     <<(<<".", ".", ".">>), (<<"U+2026">>)>>,
     <<(<<".">>), (<<"-">>)>>,
     <<(<<"<">>), (<<"{">>)>>,
     <<(<<">">>), (<<"}">>)>> >>

FixPathPlaceholder == <<"(", "U+2026", ")">>

FixPathWidth == 50

\* mus_sort.fix_path(name, width=width, strict=strict)
fix_path(name, width, strict) ==
  LET r0 == SplitFirst(SplitFirst(Strip(name), ";"), "\\")
      r1 == IF strict THEN SplitFirst(r0, ",") ELSE r0
  IN Fill(ReplaceAll(r1, DEFAULT_REPLACEMENTS), width, FixPathPlaceholder)

\* Python's truth value of an Optional[str]
Truthy(v) == v # None /\ v # <<>>

\* a or b
Or(a, b) == IF Truthy(a) THEN a ELSE b

\* str(v) inside an f-string
Render(v) == IF v = None THEN <<"N", "o", "n", "e">> ELSE v

\* musort.tools.os_locale.linux.REPLACEMENTS
REPLACEMENTS == << <<(<<"/">>), (<<"U+2044">>)>> >>

PreparePlaceholder == <<"(", "U+00E2", "U+20AC", "U+00A6", ")">>

PrepareWidth == 70

\* MusicFile.prepare_component(tag, default, max_size).  Line 127 calls
\* resp.replace(s0, s1) and drops what it returns: resp is left as it was.
prepare_component(tag, default, max_size) ==
  IF ~Truthy(tag) THEN default
  ELSE LET resp     == Strip(SplitFirst(tag, ";"))
           replaced == ReplaceAll(resp, REPLACEMENTS)
       IN Fill(resp, max_size, PreparePlaceholder)

(***************************************************************************)
(* The genre caches.  A dict is a function whose domain is its key set.    *)
(***************************************************************************)
EmptyDict == <<>>

DictPut(d, k, v) == [x \in (DOMAIN d) \cup {k} |-> IF x = k THEN v ELSE d[x]]

\* dict.get(k)
DictGet(d, k) == IF k \in DOMAIN d THEN d[k] ELSE None

\* mus_sort.genre(artist, possible): the dict after the call, and what it returns
genre(obj, artist, possible) ==
  LET obj2 == IF ~Truthy(DictGet(obj, artist)) THEN DictPut(obj, artist, possible)
              ELSE obj
  IN [obj |-> obj2, ret |-> obj2[artist]]

\* cache.genre(artist, default) of the package, under clargs.single_genre
cache_genre(single_genre, cache, artist, default) ==
  IF ~single_genre THEN [cache |-> cache, ret |-> default]
  ELSE LET key == Lower(artist)
       IN IF key \in DOMAIN cache THEN [cache |-> cache, ret |-> cache[key]]
          ELSE [cache |-> DictPut(cache, key, default), ret |-> default]

(***************************************************************************)
(* Tags, as TinyTag.get returns them; ok = FALSE is a file on which        *)
(* TinyTag.get raises TinyTagException.                                    *)
(***************************************************************************)
NoTags ==
  [ok |-> TRUE, artist |-> None, albumartist |-> None, album |-> None,
   genre |-> None, year |-> None, track |-> None, title |-> None]

BadTags == [NoTags EXCEPT !.ok = FALSE]

\* mus_sort.is_int, on the strings of the model: int() accepts surrounding
\* blanks, a sign, and digits with single underscores between them
is_int(v) ==
  LET t == Strip(v)
      u == IF t # <<>> /\ t[1] \in {"+", "-"} THEN Tail(t) ELSE t
  IN /\ u # <<>>
     /\ u[1] \in Digits /\ u[Len(u)] \in Digits
     /\ \A i \in 1..Len(u) : u[i] \in Digits \cup {"_"}
     /\ \A i \in 1..(Len(u) - 1) : ~(u[i] = "_" /\ u[i + 1] = "_")

\* str(int(v)) of a string of digits: the leading zeros go
RECURSIVE IntStr(_)
IntStr(v) == IF Len(v) > 1 /\ v[1] = "0" THEN IntStr(Tail(v)) ELSE v

\* MusicFile.from_path: artist, genre, album, year, title, track of a file
from_path(single_genre, cache, tags) ==
  LET artist == IF Truthy(tags.albumartist) THEN tags.albumartist ELSE tags.artist
      g      == IF single_genre
                THEN cache_genre(single_genre, cache, artist, tags.genre)
                ELSE [cache |-> cache, ret |-> tags.genre]
  IN [cache |-> g.cache,
      file  |-> [genre |-> g.ret, artist |-> artist, album |-> tags.album,
                 year |-> tags.year, title |-> tags.title,
                 track |-> IF Truthy(tags.track)
                              /\ \A i \in 1..Len(tags.track) : tags.track[i] \in Digits
                           THEN IntStr(tags.track) ELSE None]]

S_UNKNOWN == <<"U", "N", "K", "N", "O", "W", "N">>
S_UNKNOWN_GENRE == S_UNKNOWN \o <<"_", "G", "E", "N", "R", "E">>
S_UNKNOWN_ARTIST == S_UNKNOWN \o <<"_", "A", "R", "T", "I", "S", "T">>
S_UNKNOWN_ALBUM == S_UNKNOWN \o <<"_", "A", "L", "B", "U", "M">>
S_UNKNOWN_TRACK == S_UNKNOWN \o <<"_", "T", "R", "A", "C", "K">>
S_Singles == <<"S", "i", "n", "g", "l", "e", "s">>
S_Other == <<"O", "t", "h", "e", "r">>
S_Dash == <<" ", "-", " ">>

\* pathlib's "/": an empty segment adds nothing
PathJoin(p, seg) == IF seg = <<>> THEN p ELSE Append(p, seg)

\* MusicFile.get_new_dir(target)
get_new_dir(file, target) ==
  LET g      == prepare_component(file.genre, S_UNKNOWN_GENRE, PrepareWidth)
      artist == prepare_component(file.artist, S_UNKNOWN_ARTIST, PrepareWidth)
      album0 == prepare_component(file.album, S_UNKNOWN_ALBUM, PrepareWidth)
      album  == IF Truthy(file.year)
                THEN prepare_component(file.year, S_UNKNOWN, PrepareWidth) \o S_Dash \o album0
                ELSE album0
  IN PathJoin(PathJoin(PathJoin(target, g), artist), album)

\* MusicFile.get_new_name()
get_new_name(file) ==
  ZFill2(IF Truthy(file.track) /\ file.track # <<"0">> THEN file.track ELSE <<>>)
    \o S_Dash \o prepare_component(file.title, S_UNKNOWN_TRACK, PrepareWidth)

(***************************************************************************)
(* The file system: a set of entries [path, kind, tags].  A path is the    *)
(* sequence of names below the root directory, which is <<>>.              *)
(***************************************************************************)
DirEntry(p) == [path |-> p, kind |-> "dir", tags |-> NoTags]

FileEntry(p, t) == [path |-> p, kind |-> "file", tags |-> t]

Exists(F, p) == p = <<>> \/ \E e \in F : e.path = p

IsDir(F, p) == p = <<>> \/ \E e \in F : e.path = p /\ e.kind = "dir"

IsFile(F, p) == \E e \in F : e.path = p /\ e.kind = "file"

TagsAt(F, p) == (CHOOSE e \in F : e.path = p).tags

Name(p) == p[Len(p)]

Parent(p) == SubSeq(p, 1, Len(p) - 1)

IsPrefix(d, p) == Len(d) <= Len(p) /\ SubSeq(p, 1, Len(d)) = d

\* Path.iterdir(): the paths directly inside d
Listing(F, d) == {e.path : e \in {x \in F : Len(x.path) = Len(d) + 1 /\ IsPrefix(d, x.path)}}

\* every order in which a listing may present the paths of S
Orders(S) ==
  {o \in [1..Cardinality(S) -> S] : \A i, j \in 1..Cardinality(S) : o[i] = o[j] => i = j}

\* Path.suffix
RECURSIVE LastDot(_, _)
LastDot(name, i) == IF i < 1 THEN 0 ELSE IF name[i] = "." THEN i ELSE LastDot(name, i - 1)

Suffix(name) ==
  LET i == LastDot(name, Len(name))
  IN IF 1 < i /\ i < Len(name) THEN SubSeq(name, i, Len(name)) ELSE <<>>

MUSFILE_SUFFIXES ==
  {<<".", "m", "p", "3">>, <<".", "w", "a", "v">>, <<".", "f", "l", "a", "c">>,
   <<".", "a", "i", "f", "f">>, <<".", "a", "i", "f", "c">>, <<".", "a", "i", "f">>,
   <<".", "a", "f", "c">>, <<".", "o", "g", "a">>, <<".", "o", "g", "g">>,
   <<".", "o", "p", "u", "s">>, <<".", "w", "m", "a">>, <<".", "m", "4", "b">>,
   <<".", "m", "4", "a">>, <<".", "m", "p", "4">>}

INVALID_DIRS ==
  {<<".", "g", "i", "t">>,
   <<"_", "_", "p", "y", "c", "a", "c", "h", "e", "_", "_">>,
   <<"d", "o", "w", "n", "l", "o", "a", "d", "i", "n", "g">>,
   <<"i", "T", "u", "n", "e", "s">>}

\* mus_sort.is_music(path)
is_music(F, p) == IsFile(F, p) /\ Lower(Suffix(Name(p))) \in MUSFILE_SUFFIXES

\* mus_sort.is_valid_dir(path)
is_valid_dir(F, p) == IsDir(F, p) /\ (p = <<>> \/ Name(p) \notin INVALID_DIRS)

\* mus_sort.is_music_folder(dir)
is_music_folder(F, d) == \E p \in Listing(F, d) : Lower(Suffix(Name(p))) \in MUSFILE_SUFFIXES

\* Path.rename(target) of a directory or a file that exists, onto a free path
MoveTree(F, src, dst) ==
  {IF IsPrefix(src, e.path)
   THEN [e EXCEPT !.path = dst \o SubSeq(e.path, Len(src) + 1, Len(e.path))]
   ELSE e : e \in F}

\* Path.unlink() of a file, Path.rmdir() of an empty directory
Remove(F, p) == {e \in F : e.path # p}

\* Path.mkdir(exist_ok=True, parents=True)
MkdirParents(F, p) ==
  F \cup {DirEntry(SubSeq(p, 1, n)) : n \in {m \in 1..Len(p) : ~Exists(F, SubSeq(p, 1, m))}}

\* what Path.rename(target) does: the handlers of lines 235 and 305 are written
\* against os.rename raising FileExistsError on an occupied target
RenameOutcome(F, src, target) ==
  IF ~Exists(F, src) THEN "FileNotFoundError"
  ELSE IF target = src THEN "same"
  ELSE IF IsPrefix(src, target) THEN "OSError"
  ELSE IF Exists(F, target) THEN "FileExistsError"
  ELSE "moved"

(***************************************************************************)
(* MusicFolder                                                             *)
(***************************************************************************)
maxToCheck == 5

NoFolder ==
  [dir |-> <<>>, year |-> None, genre |-> None, artist |-> None, album |-> None,
   known |-> <<>>, rest |-> <<>>, fresh |-> FALSE, raised |-> FALSE]

\* lines 152-155: the year up to its first "-", cut to four characters when it
\* reads as an integer
YearValue(v) == IF is_int(v) THEN SubSeq(v, 1, IF Len(v) < 4 THEN Len(v) ELSE 4) ELSE v

\* KeyValue with the track artist preferred to the album artist
KeyValue_TrackArtist(key, track) ==
  IF key = "artist" THEN Or(track.artist, track.albumartist)
  ELSE IF key = "year" /\ Truthy(track.year) THEN YearValue(SplitFirst(track.year, "-"))
  ELSE track[key]

\* lines 149-155: the value a track proposes for a key
KeyValue(key, track) ==
  IF key = "artist" THEN Or(track.albumartist, track.artist)
  ELSE IF key = "year" /\ Truthy(track.year) THEN YearValue(SplitFirst(track.year, "-"))
  ELSE track[key]

\* line 157: str(value or "").replace("/", "-") or None
KeyText(text) == IF text = <<>> THEN None ELSE text

\* lines 156-157: a value that is not None is stored
KeyStore(value) ==
  IF value = None THEN None
  ELSE KeyText(Replace(IF Truthy(value) THEN value ELSE <<>>, <<"/">>, <<"-">>))

\* lines 147-157: a key still unset takes the track's value
KeyAfter(current, key, track) ==
  IF current # None THEN current ELSE KeyStore(KeyValue(key, track))

\* lines 143-160: the loop over the listing, from its i-th path on
RECURSIVE ClassifyLoop(_, _, _, _)

\* lines 159-160: the loop ends when every key is set or maxToCheck is passed;
\* the paths not reached stay in the lazy rest
ClassifyNext(F, mf, order, i) ==
  IF (Truthy(mf.year) /\ Truthy(mf.genre) /\ Truthy(mf.album) /\ Truthy(mf.artist))
     \/ i - 1 >= maxToCheck
  THEN [mf EXCEPT !.rest = SubSeq(order, i + 1, Len(order))]
  ELSE ClassifyLoop(F, mf, order, i + 1)

\* lines 144-157: TinyTag.get(path) raises, or the track is recorded and
\* proposes its values
ClassifyTrack(F, mf, order, i, track) ==
  IF ~track.ok THEN [mf EXCEPT !.raised = TRUE]
  ELSE ClassifyNext(F,
                    [mf EXCEPT !.year = KeyAfter(mf.year, "year", track),
                               !.genre = KeyAfter(mf.genre, "genre", track),
                               !.album = KeyAfter(mf.album, "album", track),
                               !.artist = KeyAfter(mf.artist, "artist", track),
                               !.known = Append(mf.known, [path |-> order[i], tags |-> track])],
                    order, i)

ClassifyLoop(F, mf, order, i) ==
  IF i > Len(order) THEN mf ELSE ClassifyTrack(F, mf, order, i, TagsAt(F, order[i]))

\* MusicFolder(dir), the listing presenting the music files in the given order
MusicFolder(F, dir, order) == ClassifyLoop(F, [NoFolder EXCEPT !.dir = dir], order, 1)

(***************************************************************************)
(* The trees a run starts from: root/d1 holds 1..MaxFiles tracks, root/d2  *)
(* holds at most one track and one of the extras.                          *)
(***************************************************************************)
MaxFiles == 2

S_X == <<"X">>
S_Pop == <<"P", "o", "p">>
S_Rock == <<"R", "o", "c", "k">>
S_L == <<"L">>
S_M == <<"M">>
S_1985 == <<"1", "9", "8", "5">>
S_T == <<"T">>

TagA ==
  [NoTags EXCEPT !.artist = S_X, !.genre = S_Pop, !.album = S_L, !.year = S_1985,
                 !.track = <<"1">>, !.title = S_T]

TagB ==
  [NoTags EXCEPT !.artist = S_X, !.genre = S_Rock, !.album = S_M,
                 !.track = <<"2">>, !.title = S_T]

TagO == [TagA EXCEPT !.genre = S_Other]

Profiles == {TagA, TagB, TagO, NoTags, BadTags}

\* the strings a run over these trees hands to fix_path: the defaults, the
\* classified tag values and the track names
Keys == {"year", "genre", "album", "artist"}

FixPathInputs ==
  {S_UNKNOWN_ARTIST, S_Singles, S_UNKNOWN_GENRE, <<>>}
    \cup ({KeyAfter(None, k, t) : k \in Keys, t \in Profiles} \ {None})
    \cup {ZFill2(Or(t.track, <<>>)) \o S_Dash \o Render(t.title) : t \in Profiles}

\* fix_path(name, strict=strict) with the default width, computed once for
\* each of these strings: the pairs <<arguments, result>>
FixPathMemo ==
  {<<x, fix_path(x[1], FixPathWidth, x[2])>> : x \in FixPathInputs \X BOOLEAN}

FixPath(name, strict) == (CHOOSE m \in FixPathMemo : m[1] = <<name, strict>>)[2]

\* AutopathJoin with the year after the album
AutopathJoin_YearLast(mf, root, g, artist, album, year) ==
  [folder |-> [mf EXCEPT !.artist = artist, !.album = album, !.year = year,
                         !.genre = g.ret],
   obj    |-> g.obj,
   target |-> PathJoin(PathJoin(PathJoin(root, g.ret), artist),
                       IF Truthy(year) THEN album \o S_Dash \o year ELSE album)]

\* autopath, lines 176-177: the folder with its attributes adjusted, the genre
\* dict after the call and the path returned; g is what genre(...) gave
AutopathJoin(mf, root, g, artist, album, year) ==
  [folder |-> [mf EXCEPT !.artist = artist, !.album = album, !.year = year,
                         !.genre = g.ret],
   obj    |-> g.obj,
   target |-> PathJoin(PathJoin(PathJoin(root, g.ret), artist),
                       IF Truthy(year) THEN year \o S_Dash \o album ELSE album)]

\* autopath, line 174: self.genre = genre(self.artist, self.genre)
AutopathGenre(mf, root, obj, artist, album, year, g0) ==
  AutopathJoin(mf, root, genre(obj, artist, g0), artist, album, year)

\* MusicFolder.autopath(root)
autopath(mf, root, obj) ==
  AutopathGenre(mf, root, obj,
                FixPath(Or(mf.artist, S_UNKNOWN_ARTIST), FALSE),
                FixPath(Or(mf.album, S_Singles), FALSE),
                FixPath(Or(mf.year, <<>>), FALSE),
                FixPath(IF Truthy(mf.genre) /\ mf.genre # S_Other THEN mf.genre
                        ELSE S_UNKNOWN_GENRE, TRUE))

\* rename_folder, lines 309-310: unlink the entries in the listing's order
RECURSIVE UnlinkLoop(_, _, _)
UnlinkLoop(F, order, i) ==
  IF i > Len(order) THEN [fs |-> F, raised |-> FALSE]
  ELSE IF IsDir(F, order[i]) THEN [fs |-> F, raised |-> TRUE]
  ELSE UnlinkLoop(Remove(F, order[i]), order, i + 1)

ErrRecord(kind, what) == [kind |-> kind, what |-> what]

\* rename_folder, lines 308-311: every entry of the folder is unlinked, then the
\* folder is removed; u is what the loop of unlinks left
RenameDeduped(base, dir, u) ==
  IF u.raised
  THEN [base EXCEPT !.fs = u.fs, !.outcome = "IsADirectoryError", !.raised = TRUE]
  ELSE [base EXCEPT !.fs = Remove(u.fs, dir), !.outcome = "deduped"]

\* RenameTry with a handler of FileExistsError that records nothing
RenameTry_Silent(base, mf, remove_duplicates, listed) ==
  CASE base.outcome \in {"moved", "same"} ->
         [base EXCEPT !.fs = MoveTree(base.fs, mf.dir, base.target),
                      !.folder = [base.folder EXCEPT !.dir = base.target, !.known = <<>>,
                                                     !.rest = <<>>, !.fresh = TRUE]]
    [] base.outcome = "FileExistsError" /\ remove_duplicates ->
         RenameDeduped(base, mf.dir, UnlinkLoop(base.fs, listed, 1))
    [] base.outcome = "FileExistsError" /\ ~remove_duplicates ->
         [base EXCEPT !.outcome = "conflict"]
    [] OTHER -> [base EXCEPT !.raised = TRUE]

\* rename_folder, lines 300-320: folder.rename(target) and its handlers
RenameTry(base, mf, remove_duplicates, listed) ==
  CASE base.outcome \in {"moved", "same"} ->
         [base EXCEPT !.fs = MoveTree(base.fs, mf.dir, base.target),
                      !.folder = [base.folder EXCEPT !.dir = base.target, !.known = <<>>,
                                                     !.rest = <<>>, !.fresh = TRUE]]
    [] base.outcome = "FileExistsError" /\ remove_duplicates ->
         RenameDeduped(base, mf.dir, UnlinkLoop(base.fs, listed, 1))
    [] base.outcome = "FileExistsError" /\ ~remove_duplicates ->
         [base EXCEPT !.errs = Append(base.errs,
                                      ErrRecord("FileExistsError",
                                                <<base.folder.artist, base.folder.album>>)),
                      !.outcome = "conflict"]
    [] OTHER -> [base EXCEPT !.raised = TRUE]

\* rename_folder, line 297 (autopath, lines 179-180): the parents of the target are made
RenameParents(F1, mf, ledger, remove_duplicates, listed, a) ==
  RenameTry([fs |-> F1, errs |-> ledger, folder |-> a.folder, obj |-> a.obj,
             target |-> a.target, outcome |-> RenameOutcome(F1, mf.dir, a.target),
             raised |-> FALSE],
            mf, remove_duplicates, listed)

\* rename_folder, line 297: a is what folder.autopath(root, create_parents=True)
\* gave
RenameAuto(F, mf, ledger, remove_duplicates, listed, a) ==
  RenameParents(MkdirParents(F, Parent(a.target)), mf, ledger, remove_duplicates, listed, a)

\* rename_folder(root, folder, errs, remove_duplicates); listed: the order in
\* which folder.dir.iterdir() presents the entries (line 309)
rename_folder(F, mf, ledger, remove_duplicates, obj, root, listed) ==
  RenameAuto(F, mf, ledger, remove_duplicates, listed, autopath(mf, root, obj))

S_CoverJpg == <<"C", "o", "v", "e", "r", ".", "j", "p", "g">>
S_FolderJpg == <<"F", "o", "l", "d", "e", "r", ".", "j", "p", "g">>

\* MusicFolder.reorganize_jpegs
reorganize_jpegs(F, dir) ==
  LET cover == Append(dir, S_CoverJpg)
      other == Append(dir, S_FolderJpg)
  IN IF ~Exists(F, cover) THEN F
     ELSE IF Exists(F, other) THEN Remove(F, cover)
     ELSE MoveTree(F, cover, other)

\* the file name MusicFolder.rename_file gives a track
TrackFileName(p, t) ==
  FixPath(ZFill2(Or(t.track, <<>>)) \o S_Dash \o Render(t.title), FALSE)
    \o Suffix(Name(p))

\* rename_file, lines 231-239: p.rename(target) when the names differ, and the
\* handler of FileExistsError
RenameFileTo(F, p, target, outcome, rm_on_exists) ==
  IF Name(p) = Name(target) THEN [fs |-> F, exc |-> ""]
  ELSE IF outcome = "moved" THEN [fs |-> MoveTree(F, p, target), exc |-> ""]
  ELSE IF outcome = "FileExistsError" /\ rm_on_exists
       THEN [fs |-> Remove(F, p), exc |-> ""]
  ELSE [fs |-> F, exc |-> outcome]

\* rename_file, lines 224-227: the target is the new name beside p
RenameFileTarget(F, p, target, rm_on_exists) ==
  RenameFileTo(F, p, target, RenameOutcome(F, p, target), rm_on_exists)

\* MusicFolder.rename_file(p, t, rm_on_exists): the file system after the call
\* and the exception it lets out ("" when none)
rename_file(F, p, t, rm_on_exists) ==
  RenameFileTarget(F, p, Append(Parent(p), TrackFileName(p, t)), rm_on_exists)

\* the (path, tags) pairs MusicFolder.__iter__ yields; lazy: TinyTag.get runs
\* when the pair is reached
Tracks(mf, listed) ==
  IF mf.fresh THEN [i \in 1..Len(listed) |-> [path |-> listed[i], tags |-> NoTags, lazy |-> TRUE]]
  ELSE [i \in 1..Len(mf.known) |->
          [path |-> mf.known[i].path, tags |-> mf.known[i].tags, lazy |-> FALSE]]
       \o [i \in 1..Len(mf.rest) |-> [path |-> mf.rest[i], tags |-> NoTags, lazy |-> TRUE]]

\* MusicFolder.reorganize_files: the loop from the i-th track on; raised is the
\* exception that leaves the loop ("" when none)
RECURSIVE FilesLoop(_, _, _, _, _)

\* lines 212-219: r is what rename_file gave; an exception it let out is recorded
FilesRenamed(ledger, tracks, rm, i, r) ==
  FilesLoop(r.fs,
            IF r.exc = "" THEN ledger ELSE Append(ledger, ErrRecord(r.exc, tracks[i].path)),
            tracks, rm, i + 1)

\* line 211: a lazy pair runs TinyTag.get(path) when the loop asks for it,
\* outside the try of the loop's body
FilesTrack(F, ledger, tracks, rm, i, tr) ==
  IF tr.lazy /\ ~Exists(F, tr.path)
  THEN [fs |-> F, errs |-> ledger, raised |-> "FileNotFoundError"]
  ELSE IF tr.lazy /\ ~TagsAt(F, tr.path).ok
  THEN [fs |-> F, errs |-> ledger, raised |-> "TinyTagException"]
  ELSE FilesRenamed(ledger, tracks, rm, i,
                    rename_file(F, tr.path,
                                IF tr.lazy THEN TagsAt(F, tr.path) ELSE tr.tags, rm))

FilesLoop(F, ledger, tracks, rm, i) ==
  IF i > Len(tracks) THEN [fs |-> F, errs |-> ledger, raised |-> ""]
  ELSE FilesTrack(F, ledger, tracks, rm, i, tracks[i])

\* MusicFolder.reorganize(errs, remove_duplicates); listed: the order in which
\* reset_known_paths' listing presents the music files
reorganize(F, mf, ledger, remove_duplicates, listed) ==
  FilesLoop(reorganize_jpegs(F, mf.dir), ledger, Tracks(mf, listed), remove_duplicates, 1)

\* cleanup(root): visits every valid directory below root, and removes none
RECURSIVE cleanup(_, _)
RECURSIVE CleanupEach(_, _)
CleanupEach(F, todo) ==
  IF todo = {} THEN F
  ELSE LET p == CHOOSE q \in todo : TRUE
       IN CleanupEach(IF is_valid_dir(F, p) THEN cleanup(F, p) ELSE F, todo \ {p})
cleanup(F, root) == CleanupEach(F, Listing(F, root))

DigitOf == <<"1", "2", "3", "4", "5", "6", "7", "8", "9">>

TrackFile(i) == <<"t", DigitOf[i], ".", "m", "p", "3">>

D1 == <<(<<"d", "1">>)>>

D2 == <<(<<"d", "2">>)>>

\* a directory holding the given tracks
Album(dir, tracks) ==
  {DirEntry(dir)} \cup {FileEntry(Append(dir, TrackFile(i)), tracks[i]) : i \in 1..Len(tracks)}

Extras ==
  { {},
    {DirEntry(Append(D2, <<"s">>))},
    {DirEntry(Append(D2, <<"s", ".", "m", "p", "3">>))},
    {FileEntry(Append(D2, S_CoverJpg), NoTags)},
    {FileEntry(Append(D2, S_CoverJpg), NoTags), FileEntry(Append(D2, S_FolderJpg), NoTags)} }

TrackLists(n) == UNION {[1..k -> Profiles] : k \in 0..n}

Trees ==
  {Album(D1, t1) \cup Album(D2, t2) \cup x :
     t1 \in TrackLists(MaxFiles) \ {<<>>}, t2 \in TrackLists(1), x \in Extras}

Modes == [rename_dirs : BOOLEAN, rename_files : BOOLEAN,
          remove_duplicates : BOOLEAN, remove_empty : BOOLEAN]

Root == <<>>

NoMode ==
  [rename_dirs |-> FALSE, rename_files |-> FALSE, remove_duplicates |-> FALSE,
   remove_empty |-> FALSE]

NoEvent == [op |-> "", outcome |-> "", dir |-> <<>>, target |-> <<>>]

Event(op, outcome, dir, target) ==
  [op |-> op, outcome |-> outcome, dir |-> dir, target |-> target]

Frame(dir, pc) == [dir |-> dir, todo |-> Listing(fs, dir), pc |-> pc]

Top == stack[Len(stack)]

Pop == SubSeq(stack, 1, Len(stack) - 1)

SetTop(f) == [stack EXCEPT ![Len(stack)] = f]

\* no call of a sanitizer yet, and a call asked for but not made yet
NoCall == [name |-> <<>>, width |-> 0, strict |-> FALSE, called |-> FALSE,
           fixed |-> <<>>, prepared |-> <<>>]

Asked(name, width, strict) == [NoCall EXCEPT !.name = name, !.width = width, !.strict = strict]

otherVars == <<pkgCache, calls, san, ledger1>>

Init ==
  /\ fs \in Trees
  /\ mode \in Modes
  /\ errs = <<>>
  /\ genreObj = EmptyDict
  /\ stack = <<>>
  /\ folder = NoFolder
  /\ status = "start"
  /\ run = "first"
  /\ ev = NoEvent
  /\ pkgCache = EmptyDict
  /\ calls = <<>>
  /\ san = NoCall
  /\ ledger1 = <<>>

(***************************************************************************)
(* sort_root and sort_dir                                                  *)
(***************************************************************************)
\* sort_root, lines 250-252: the listing of dir is taken
SortRoot ==
  /\ status = "start"
  /\ IF mode.rename_files \/ mode.rename_dirs
     THEN stack' = <<Frame(Root, "root")>> /\ status' = "sorting"
     ELSE stack' = <<>> /\ status' = "sorted"
  /\ ev' = Event("sort_root", "", Root, <<>>)
  /\ UNCHANGED <<fs, mode, errs, genreObj, folder, run, otherVars>>

\* the directories of its listing the loop of sort_root or sort_dir has yet to
\* enter: is_valid_dir is looked up when the loop reaches the path
ToEnter == {p \in Top.todo : is_valid_dir(fs, p)}

\* lines 252-254 and 267-276: the loop passes over the paths that are no valid
\* directory, reaches one that is, and calls sort_dir on it
Descend ==
  /\ status = "sorting" /\ Top.pc \in {"root", "iter"}
  /\ \E p \in ToEnter :
       /\ stack' = Append(SetTop([Top EXCEPT !.todo = Top.todo \ {p}]), Frame(p, "iter"))
       /\ ev' = Event("descend", "", p, <<>>)
  /\ UNCHANGED <<fs, mode, errs, genreObj, folder, status, run, otherVars>>

\* what sort_dir does after MusicFolder(dir), and after rename_folder
AfterClassify == IF mode.rename_dirs THEN "rename" ELSE IF mode.rename_files THEN "files" ELSE "return"

AfterRename == IF mode.rename_files THEN "files" ELSE "return"

Goto(pc) == IF pc = "return" THEN Pop ELSE SetTop([Top EXCEPT !.pc = pc])

\* line 279: the directory holds no entry with a music suffix; sort_dir returns
NotMusicFolder ==
  /\ status = "sorting" /\ Top.pc = "iter" /\ ToEnter = {}
  /\ ~is_music_folder(fs, Top.dir)
  /\ stack' = Pop
  /\ ev' = Event("sort_dir", "not music", Top.dir, <<>>)
  /\ UNCHANGED <<fs, mode, errs, genreObj, folder, status, run, otherVars>>

\* lines 279-286: MusicFolder(dir), and the handler of TinyTagException
Classify ==
  /\ status = "sorting" /\ Top.pc = "iter" /\ ToEnter = {}
  /\ is_music_folder(fs, Top.dir)
  /\ \E mf \in {MusicFolder(fs, Top.dir, order) :
                   order \in Orders({p \in Listing(fs, Top.dir) : is_music(fs, p)})} :
          IF mf.raised
          THEN /\ errs' = IF errs # <<>>
                          THEN Append(errs, ErrRecord("TinyTagException", Top.dir))
                          ELSE errs
               /\ stack' = Pop
               /\ folder' = NoFolder
               /\ ev' = Event("classify", "TinyTagException", Top.dir, <<>>)
          ELSE /\ errs' = errs
               /\ stack' = Goto(AfterClassify)
               /\ folder' = IF AfterClassify = "return" THEN NoFolder ELSE mf
               /\ ev' = Event("classify", "ok", Top.dir, <<>>)
  /\ UNCHANGED <<fs, mode, genreObj, status, run, otherVars>>

\* lines 288-289: rename_folder(root, folder, errs, remove_duplicates)
RenameFolder ==
  /\ status = "sorting" /\ Top.pc = "rename"
  /\ \E r \in {rename_folder(fs, folder, errs, mode.remove_duplicates, genreObj, Root, listed) :
                  listed \in Orders(Listing(fs, folder.dir))} :
          /\ fs' = r.fs
          /\ errs' = r.errs
          /\ genreObj' = r.obj
          /\ ev' = Event("rename_folder", r.outcome, folder.dir, r.target)
          /\ IF r.raised
             THEN status' = "aborted" /\ stack' = stack /\ folder' = r.folder
             ELSE /\ status' = status
                  /\ stack' = Goto(AfterRename)
                  /\ folder' = IF AfterRename = "return" THEN NoFolder ELSE r.folder
  /\ UNCHANGED <<mode, run, otherVars>>

\* lines 290-291: folder.reorganize(errs, remove_duplicates)
Reorganize ==
  /\ status = "sorting" /\ Top.pc = "files"
  /\ \E r \in {reorganize(fs, folder, errs, mode.remove_duplicates, listed) :
                  listed \in Orders({p \in Listing(reorganize_jpegs(fs, folder.dir), folder.dir) :
                                       is_music(fs, p)})} :
          /\ fs' = r.fs
          /\ errs' = r.errs
          /\ ev' = Event("reorganize", r.raised, folder.dir, <<>>)
          /\ IF r.raised # ""
             THEN status' = "aborted" /\ stack' = stack /\ folder' = folder
             ELSE status' = status /\ stack' = Pop /\ folder' = NoFolder
  /\ UNCHANGED <<mode, genreObj, run, otherVars>>

\* sort_root's loop is over
SortRootDone ==
  /\ status = "sorting" /\ Top.pc = "root" /\ ToEnter = {}
  /\ stack' = <<>>
  /\ status' = "sorted"
  /\ ev' = Event("sort_root", "sorted", Root, <<>>)
  /\ UNCHANGED <<fs, mode, errs, genreObj, folder, run, otherVars>>

\* sort_root, lines 256-259 (root and dir are the same directory here)
Cleanup ==
  /\ status = "sorted"
  /\ fs' = IF mode.remove_empty THEN cleanup(fs, Root) ELSE fs
  /\ status' = "done"
  /\ ev' = Event("cleanup", IF mode.remove_empty THEN "cleaned" ELSE "", Root, <<>>)
  /\ UNCHANGED <<mode, errs, genreObj, stack, folder, run, otherVars>>

Next ==
  \/ SortRoot
  \/ Descend
  \/ NotMusicFolder
  \/ Classify
  \/ RenameFolder
  \/ Reorganize
  \/ SortRootDone
  \/ Cleanup

Spec == Init /\ [][Next]_vars

(***************************************************************************)
(* Two runs in succession on the same tree, with the same Mode.  The       *)
(* second run is a new process: its ledger and its genre dict start empty. *)
(***************************************************************************)
SecondRun ==
  /\ status = "done" /\ run = "first"
  /\ run' = "second"
  /\ status' = "start"
  /\ ledger1' = errs
  /\ errs' = <<>>
  /\ genreObj' = EmptyDict
  /\ stack' = <<>>
  /\ folder' = NoFolder
  /\ ev' = Event("main", "second run", Root, <<>>)
  /\ UNCHANGED <<fs, mode, pkgCache, calls, san>>

NextTwice == Next \/ SecondRun

SpecTwice == Init /\ [][NextTwice]_vars

(***************************************************************************)
(* The two genre caches on their own: a bounded sequence of calls of       *)
(* genre (mus_sort.py) and of cache.genre (the package).                   *)
(***************************************************************************)
MaxCalls == 3

S_x == <<"x">>
S_Y == <<"Y">>

Artists == {S_X, S_x, S_Y}

Proposals == {S_Pop, S_Rock, <<>>}

Call(fn, artist, proposed, ret) ==
  [fn |-> fn, artist |-> artist, proposed |-> proposed, ret |-> ret]

InitCache ==
  /\ fs = {}
  /\ mode \in [single_genre : BOOLEAN]
  /\ errs = <<>>
  /\ genreObj = EmptyDict
  /\ stack = <<>>
  /\ folder = NoFolder
  /\ status = "cache"
  /\ run = "first"
  /\ ev = NoEvent
  /\ pkgCache = EmptyDict
  /\ calls = <<>>
  /\ san = NoCall
  /\ ledger1 = <<>>

\* genre(artist, possible)
GenreCall ==
  /\ Len(calls) < MaxCalls
  /\ \E a \in Artists, g \in Proposals :
       \E r \in {genre(genreObj, a, g)} :
          /\ genreObj' = r.obj
          /\ calls' = Append(calls, Call("genre", a, g, r.ret))
  /\ UNCHANGED <<fs, mode, errs, stack, folder, status, run, ev, pkgCache, san, ledger1>>

\* cache.genre(artist, default)
CacheGenreCall ==
  /\ Len(calls) < MaxCalls
  /\ \E a \in Artists, g \in Proposals :
       \E r \in {cache_genre(mode.single_genre, pkgCache, a, g)} :
          /\ pkgCache' = r.cache
          /\ calls' = Append(calls, Call("cache.genre", a, g, r.ret))
  /\ UNCHANGED <<fs, mode, errs, genreObj, stack, folder, status, run, ev, san, ledger1>>

NextCache == GenreCall \/ CacheGenreCall

SpecCache == InitCache /\ [][NextCache]_vars

(***************************************************************************)
(* The two sanitizers on their own: fix_path and prepare_component are     *)
(* handed the same string and the same width.                              *)
(***************************************************************************)
MaxLen == 3

SanAlphabet == {"a", " ", ";", ":", "\"", "/", "\\", "|", "*", "?", "<", ">"}

SanWidths == {1, 3, 5, 8}

RECURSIVE Strings(_)
Strings(n) ==
  IF n = 0 THEN {<<>>}
  ELSE Strings(n - 1)
         \cup {Append(t, c) : t \in {u \in Strings(n - 1) : Len(u) = n - 1}, c \in SanAlphabet}

InitSan ==
  /\ fs = {}
  /\ mode = NoMode
  /\ errs = <<>>
  /\ genreObj = EmptyDict
  /\ stack = <<>>
  /\ folder = NoFolder
  /\ status = "sanitize"
  /\ run = "first"
  /\ ev = NoEvent
  /\ pkgCache = EmptyDict
  /\ calls = <<>>
  /\ san \in {Asked(name, w, strict) :
                name \in Strings(MaxLen), w \in SanWidths, strict \in BOOLEAN}
  /\ ledger1 = <<>>

\* fix_path(name, width=w, strict=strict) and prepare_component(name, max_size=w)
Sanitize ==
  /\ status = "sanitize" /\ ~san.called
  /\ san' = [san EXCEPT !.called = TRUE,
                        !.fixed = fix_path(san.name, san.width, san.strict),
                        !.prepared = prepare_component(san.name, S_UNKNOWN, san.width)]
  /\ UNCHANGED <<fs, mode, errs, genreObj, stack, folder, status, run, ev, pkgCache, calls, ledger1>>

NextSan == Sanitize

SpecSan == InitSan /\ [][NextSan]_vars

(***************************************************************************)
(* MusicFolder(dir) on its own: one folder whose files agree on genre,     *)
(* album, year and resolved artist, classified under any listing order.    *)
(***************************************************************************)
S_V == <<"V">>
S_AC == <<"A", "/", "C">>
S_Year03 == <<"1", "9", "8", "5", "-", "0", "3">>
S_Year5 == <<"1", "9", "8", "5", "1">>

\* the (albumartist, artist) pairs that resolve to the given artist
ArtistTags(resolved) ==
  IF resolved = None THEN {<<None, None>>, <<(<<>>), None>>}
  ELSE {<<resolved, S_X>>, <<None, resolved>>, <<(<<>>), resolved>>}

FolderTags ==
  [genre : {None, S_Pop, S_AC, <<>>}, album : {None, S_L},
   year : {None, S_1985, S_Year03, S_Year5}, artist : {None, S_V}]

\* the tags of the i-th file of a folder with the given tags
FileTags(t, pair, i) ==
  [NoTags EXCEPT !.genre = t.genre, !.album = t.album, !.year = t.year,
                 !.albumartist = pair[1], !.artist = pair[2],
                 !.track = <<DigitOf[i]>>, !.title = S_T]

AgreeingFolders ==
  {Album(D1, [i \in 1..n |-> FileTags(t, pairs[i], i)]) :
     t \in FolderTags, n \in 1..MaxFiles,
     pairs \in UNION {[1..MaxFiles -> ArtistTags(a)] : a \in {None, S_V}}}

InitClassify ==
  /\ fs \in AgreeingFolders
  /\ mode = NoMode
  /\ errs = <<>>
  /\ genreObj = EmptyDict
  /\ stack = <<>>
  /\ folder = NoFolder
  /\ status = "classify"
  /\ run = "first"
  /\ ev = NoEvent
  /\ pkgCache = EmptyDict
  /\ calls = <<>>
  /\ san = NoCall
  /\ ledger1 = <<>>

\* MusicFolder(dir), the listing presenting the files in any order
ClassifyFolder ==
  /\ status = "classify"
  /\ \E mf \in {MusicFolder(fs, D1, order) :
                   order \in Orders({p \in Listing(fs, D1) : is_music(fs, p)})} :
       /\ folder' = mf
       /\ ev' = Event("classify", "ok", D1, <<>>)
  /\ status' = "classified"
  /\ UNCHANGED <<fs, mode, errs, genreObj, stack, run, pkgCache, calls, san, ledger1>>

NextClassify == ClassifyFolder

SpecClassify == InitClassify /\ [][NextClassify]_vars


(***************************************************************************)
(* Properties of a run                                                     *)
(***************************************************************************)
\* sort_dir is about to call rename_folder on a folder whose target is taken
TargetTaken ==
  /\ status = "sorting" /\ Top.pc = "rename"
  /\ autopath(folder, Root, genreObj).target # folder.dir
  /\ Exists(fs, autopath(folder, Root, genreObj).target)

\* the entries of the file system at or below p
Below(F, p) == {e \in F : IsPrefix(p, e.path)}

C2_DuplicateIsDeleted ==
  [][(TargetTaken /\ mode.rename_dirs /\ mode.remove_duplicates)
       => /\ fs' = fs \ Below(fs, folder.dir)
          /\ status' # "aborted"]_vars

\* a directory no rule excludes, at any depth below the root
ValidBelowRoot(F, p) ==
  \A n \in 1..Len(p) : is_valid_dir(F, SubSeq(p, 1, n))

\* C3: with remove-empty on, once sort_root has returned no valid directory
\* below the root is empty.
C3_EmptyDirsRemoved ==
  (status = "done" /\ mode.remove_empty)
    => \A e \in fs : (e.kind = "dir" /\ ValidBelowRoot(fs, e.path)) => Listing(fs, e.path) # {}

\* C4: a step that hits a TinyTagException, in MusicFolder(dir) or in the loop
\* of reorganize_files, adds a record to the ledger and does not abort the run.
C4_TagFailureIsRecorded ==
  [][(ev'.outcome = "TinyTagException" /\ ev'.op \in {"classify", "reorganize"})
       => /\ Len(errs') = Len(errs) + 1
          /\ status' # "aborted"]_vars

\* the music files of each folder carry the same tags
FoldersAgree(F) ==
  \A e1, e2 \in F :
    (e1.kind = "file" /\ e2.kind = "file" /\ Parent(e1.path) = Parent(e2.path))
      => e1.tags = e2.tags

\* C6: in a second run on the tree the first run left, with the same Mode, no
\* folder and no track is moved or renamed: every target computed by
\* rename_folder is the folder's current path and the file system stays as
\* it is, whatever the order of the listings.  (Stated for trees whose files
\* all have readable tags, the same in each folder, and for first runs that
\* ended with an empty ledger.)
C6_SecondRunMovesNothing ==
  [][(run = "second" /\ ledger1 = <<>> /\ FoldersAgree(fs) /\ \A e \in fs : e.tags.ok)
       => /\ fs' = fs
          /\ (status = "sorting" /\ Top.pc = "rename")
               => autopath(folder, Root, genreObj).target = folder.dir]_vars

\* C5: with single-genre-per-artist on, every call of either genre cache
\* returns the genre proposed by the first call made to that cache for the same
\* artist, names compared without regard to case.  (Stated for calls that
\* propose a non-empty genre.)
FirstCall(i) ==
  CHOOSE j \in 1..i :
    /\ calls[j].fn = calls[i].fn /\ Lower(calls[j].artist) = Lower(calls[i].artist)
    /\ \A k \in 1..(j - 1) :
         ~(calls[k].fn = calls[i].fn /\ Lower(calls[k].artist) = Lower(calls[i].artist))

C5_FirstGenreWins ==
  (status = "cache" /\ mode.single_genre /\ \A k \in 1..Len(calls) : calls[k].proposed # <<>>)
    => \A i \in 1..Len(calls) : calls[i].ret = calls[FirstCall(i)].proposed

\* the characters no file name may hold
Illegal == {":", "\"", "/", "\\", "|", "*", "?", "<", ">"}

Clean(out, width) ==
  out = ValueError \/ (Len(out) <= width /\ \A i \in 1..Len(out) : out[i] \notin Illegal)

\* C7: whatever the string and the width, what fix_path and prepare_component
\* return holds no illegal character and is at most width characters long.
\* (Stated for non-empty strings, and for calls that return.)
C7_SanitizedIsClean ==
  (status = "sanitize" /\ san.called /\ san.name # <<>>)
    => Clean(san.fixed, san.width) /\ Clean(san.prepared, san.width)

\* sort_dir is about to call rename_folder on the folder it classified
AtRename == status = "sorting" /\ Top.pc = "rename"

\* the folder has moved to target, whose missing parents were made
MovedTo(target) == fs' = MoveTree(MkdirParents(fs, Parent(target)), folder.dir, target)

\* C8: a music folder classified with no genre, artist, album and year is
\* moved to root/UNKNOWN_GENRE/UNKNOWN_ARTIST/UNKNOWN_ALBUM when that path is
\* free.
C8_UntaggedFolderTarget ==
  [][(AtRename /\ folder.genre = None /\ folder.artist = None /\ folder.album = None
        /\ folder.year = None
        /\ ~Exists(fs, <<S_UNKNOWN_GENRE, S_UNKNOWN_ARTIST, S_UNKNOWN_ALBUM>>))
       => MovedTo(<<S_UNKNOWN_GENRE, S_UNKNOWN_ARTIST, S_UNKNOWN_ALBUM>>)]_vars

\* the folder was classified with genre, artist and album, and fix_path
\* leaves each of its values as it is
FullyTagged ==
  /\ AtRename /\ Truthy(folder.genre) /\ Truthy(folder.artist) /\ Truthy(folder.album)
  /\ FixPath(folder.genre, TRUE) = folder.genre
  /\ FixPath(folder.artist, FALSE) = folder.artist
  /\ FixPath(folder.album, FALSE) = folder.album
  /\ folder.year # None => FixPath(folder.year, FALSE) = folder.year

\* the year and the album, or the album alone
LastSegment == IF Truthy(folder.year) THEN folder.year \o S_Dash \o folder.album ELSE folder.album

\* the genre the folder is filed under: the one an earlier folder of the run
\* recorded for the artist, else UNKNOWN_GENRE for "Other", else its own
FiledGenre ==
  IF folder.artist \in DOMAIN genreObj /\ genreObj[folder.artist] # <<>>
  THEN genreObj[folder.artist]
  ELSE IF folder.genre = S_Other THEN S_UNKNOWN_GENRE ELSE folder.genre

AnyFileTags == (CHOOSE e \in fs : e.kind = "file").tags

\* a tag value as the folder keeps it: "/" written "-", nothing for ""
Kept(v) ==
  IF v = None \/ v = <<>> THEN None
  ELSE [i \in 1..Len(v) |-> IF v[i] = "/" THEN "-" ELSE v[i]]

\* the part of a year before its first "-", cut to four characters when it
\* reads as an integer
KeptYear(y) ==
  IF y = None \/ y = <<>> THEN None
  ELSE LET dashes == {i \in 1..Len(y) : y[i] = "-"}
           head   == IF dashes = {} THEN y
                     ELSE SubSeq(y, 1, (CHOOSE i \in dashes : \A j \in dashes : i <= j) - 1)
       IN Kept(IF is_int(head) /\ Len(head) > 4 THEN SubSeq(head, 1, 4) ELSE head)

\* C10 (amended): for a folder whose music files carry the same genre, album
\* and year tags and the same resolved artist (the album artist when it is
\* set, else the artist), MusicFolder returns those values as it keeps them:
\* the year up to its first "-" and cut to four characters when it reads as an
\* integer, "/" written "-", an empty value absent; and it returns them for
\* every order in which the listing presents the files.
C10_ClassifiesAgreedTags ==
  status = "classified"
    => /\ folder.genre = Kept(AnyFileTags.genre)
       /\ folder.album = Kept(AnyFileTags.album)
       /\ folder.year = KeptYear(AnyFileTags.year)
       /\ folder.artist = Kept(IF Truthy(AnyFileTags.albumartist)
                               THEN AnyFileTags.albumartist ELSE AnyFileTags.artist)

\* two files listed second-first, the album artist V set on one of them only,
\* the year tag 1985-03 kept as 1985
C10_Witness ==
  /\ status = "classified"
  /\ Cardinality({e \in fs : e.kind = "file"}) = 2
  /\ folder.known # <<>> /\ folder.known[1].path = Append(D1, TrackFile(2))
  /\ \E e \in fs : e.kind = "file" /\ e.tags.albumartist = S_V /\ e.tags.artist = S_X
  /\ \E e \in fs : e.kind = "file" /\ e.tags.albumartist = None /\ e.tags.artist = S_V
  /\ AnyFileTags.year = S_Year03 /\ folder.year = S_1985 /\ folder.artist = S_V

\* C10 as first stated: MusicFolder returns exactly the genre, artist, album
\* and year tags the files carry.
C10_ClassifiesRawTags ==
  status = "classified"
    => /\ folder.genre = AnyFileTags.genre
       /\ folder.album = AnyFileTags.album
       /\ folder.year = AnyFileTags.year
       /\ folder.artist = AnyFileTags.artist

\* sort_dir is about to call folder.reorganize on the folder it classified
AtFiles == status = "sorting" /\ Top.pc = "files"

\* the music files directly inside directory d
MusicIn(F, d) == {e \in F : e.kind = "file" /\ Parent(e.path) = d /\ is_music(F, e.path)}

\* the track number on two digits, or nothing when the file has none
CanonicalTrack(t) == IF Truthy(t.track) THEN ZFill2(t.track) ELSE <<>>

\* the track number, " - ", and the title as the given sanitizer leaves it,
\* or UNKNOWN_TRACK when the file has no title
CanonicalStem(t, title) ==
  CanonicalTrack(t) \o S_Dash \o (IF Truthy(t.title) THEN title ELSE S_UNKNOWN_TRACK)

\* C11: a track is given the name made of its track number on two digits (or
\* nothing when it has no track number), " - ", its sanitized title (or
\* UNKNOWN_TRACK when it has no title) and the extension its file had: the
\* only music file of a folder, with readable tags, bears that name once
\* folder.reorganize has run, and get_new_name returns that name without the
\* extension.
C11_CanonicalTrackName ==
  [][\A e \in MusicIn(fs, folder.dir) :
       (AtFiles /\ MusicIn(fs, folder.dir) = {e} /\ e.tags.ok)
         => /\ IsFile(fs', Append(folder.dir,
                                  CanonicalStem(e.tags, fix_path(Render(e.tags.title), FixPathWidth, FALSE))
                                    \o Suffix(Name(e.path))))
            /\ get_new_name(from_path(FALSE, EmptyDict, e.tags).file)
                 = CanonicalStem(e.tags, prepare_component(e.tags.title, S_UNKNOWN_TRACK, PrepareWidth))]_vars

\* sort_dir has entered every subdirectory of the directory it is in and comes
\* to is_music_folder(dir)
AtSorting == status = "sorting" /\ Top.pc = "iter" /\ ToEnter = {}

\* C12: a directory with no music file directly inside it is only traversed:
\* when sort_dir comes to sort it, it returns without making a MusicFolder of
\* it, and no folder handed to rename_folder is without a music file, so that
\* none is moved or renamed; and this whatever else the directory holds, a
\* subdirectory with a music suffix included.
C12_NoMusicOnlyTraversed ==
  [][/\ (AtSorting /\ MusicIn(fs, Top.dir) = {})
          => (ev'.op = "sort_dir" /\ folder' = NoFolder /\ fs' = fs)
     /\ (AtRename /\ MusicIn(fs, folder.dir) = {}) => fs' = fs]_vars

====
